---- MODULE Spec2Model ----
(***************************************************************************)
(* A model of the Stagehand client (src/src/lib.rs): the facade with its   *)
(* session cell, the REST transport, and one push stream with its pump     *)
(* task, its bounded channel and its consumer-side decoder.                *)
(***************************************************************************)
EXTENDS Integers, Sequences, FiniteSets, TLC

\* ---------------------------------------------------------------- bounds
\* Frames the server sends on one stream in the "mixed" script.
MaxFrames == 2
\* Transport invocations explored in one behaviour.
MaxCalls == 3
\* Items of a generic (trait-level) init stream.
MaxInitItems == 2

\* tokio::sync::mpsc::channel(100)
ChannelCapacity == 100
\* The "burst" script sends enough frames to fill the channel and block the pump.
BurstLen == ChannelCapacity + 2

\* ---------------------------------------------------------------- values
\* Option<T>: None is the empty tuple, Some(x) the one-element tuple.
None == <<>>
Some(x) == <<x>>

SessionIds == {"sess-a", "sess-b"}

StreamOps == {"act", "extract", "observe", "execute"}

\* StagehandError: the three variants of the enum, with their message.
NoErr == [kind |-> "none", msg |-> ""]
Transport(msg) == [kind |-> "Transport", msg |-> msg]
Api(msg) == [kind |-> "Api", msg |-> msg]
MissingApiKey(key) == [kind |-> "MissingApiKey", msg |-> key]

\* ------------------------------------------------------------ JSON frames
\* A parsed frame (serde_json::Value), reduced to the paths the decoders read.
\* "absent" stands for a path that is missing or not of the type asked for.
\*   type    : json["type"].as_str()
\*   status  : json["data"]["status"].as_str()
\*   error   : json["data"]["error"].as_str()
\*   message : json["data"]["message"].as_str()
\*   result  : json["data"]["result"], a token for the JSON value
\*   success : json["success"].as_bool()
Frame(t, st, er, ms, rs, su) ==
    [type |-> t, status |-> st, error |-> er, message |-> ms, result |-> rs, success |-> su]

NullFrame == Frame("absent", "absent", "absent", "absent", "absent", "absent")

LogFrame == Frame("log", "absent", "absent", "navigating", "absent", "absent")
FinishedFrame == Frame("system", "finished", "absent", "absent", "r_true", "absent")
FinishedFalseFrame == Frame("system", "finished", "absent", "absent", "r_false", "absent")
FinishedBareFrame == Frame("system", "finished", "absent", "absent", "r_obj", "absent")
ErrorFrame == Frame("system", "error", "boom", "absent", "absent", "absent")
RunningFrame == Frame("system", "running", "absent", "absent", "absent", "absent")
UnknownTypeFrame == Frame("ping", "absent", "absent", "absent", "absent", "absent")
BareFrame == Frame("absent", "absent", "absent", "absent", "absent", "false")

JsonFrames ==
    {LogFrame, FinishedFrame, ErrorFrame, RunningFrame, UnknownTypeFrame, BareFrame}

\* Frames of every shape the decoders tell apart: the error frame for each
\* value of data.error, the finished frame for each result, the frame without
\* "type" for each value of "success", and the frames above.
ErrorTexts == {"boom", "", "Unknown error"}
ErrorFrameOf(er) == Frame("system", "error", er, "absent", "absent", "absent")
FinishedFrameOf(rs) == Frame("system", "finished", "absent", "absent", rs, "absent")
BareFrameOf(su) == Frame("absent", "absent", "absent", "absent", "absent", su)
LogFrameOf(ms, st) == Frame("log", st, "absent", ms, "absent", "absent")
SystemFrameOf(st) == Frame("system", st, "absent", "absent", "absent", "absent")
ResultTokens == {"r_true", "r_false", "r_obj", "absent"}
AnyFrames ==
    JsonFrames
    \cup {ErrorFrameOf(er) : er \in ErrorTexts \cup {"absent"}}
    \cup {FinishedFrameOf(rs) : rs \in ResultTokens}
    \cup {BareFrameOf(su) : su \in {"true", "false", "absent"}}
    \cup {LogFrameOf(ms, st) : ms \in {"navigating", "absent"}, st \in {"running", "absent"}}
    \cup {SystemFrameOf(st) : st \in {"running", "connected", "absent"}}

\* json["data"]["result"]["success"].as_bool() of a result token.
ResultSuccess(rs) ==
    CASE rs = "r_true" -> "true"
      [] rs = "r_false" -> "false"
      [] OTHER -> "absent"

\* Option<bool>::unwrap_or(true)
UnwrapOrTrue(b) == IF b = "absent" THEN TRUE ELSE b = "true"

\* Variant: the message of the frame is replaced by the default.
UnwrapOrUnknown_always(s) == "Unknown error"
\* Option<&str>::unwrap_or("Unknown error")
UnwrapOrUnknown(s) == IF s = "absent" THEN "Unknown error" ELSE s

\* serde_json::Value::to_string(): the JSON text of data.result (Null prints
\* as "null"), or of the whole frame.
ResultText(json) ==
    [of |-> "result", result |-> IF json.result = "absent" THEN "null" ELSE json.result,
     frame |-> NullFrame]
FrameText(json) == [of |-> "frame", result |-> "null", frame |-> json]
NoText == [of |-> "none", result |-> "null", frame |-> NullFrame]

\* LogLine
NoLog == [message |-> "", status |-> None]
\* Variant: the status of the frame is not copied into the log line.
parse_log_event_no_status(json) ==
    Some([message |-> IF json.message = "absent" THEN "" ELSE json.message,
          status |-> None])
parse_log_event(json) ==
    Some([message |-> IF json.message = "absent" THEN "" ELSE json.message,
          status |-> IF json.status = "absent" THEN None ELSE Some(json.status)])

\* ------------------------------------------------------- response events
\* XResponse { event: Option<XResponseEvent> }, the four operations' event enums
\* folded into one record: tag is the variant ("None" for event: None).
Event(tag, b, text, log) == [tag |-> tag, success |-> b, text |-> text, log |-> log]
NoEvent == Event("None", FALSE, NoText, NoLog)
Log(l) == Event("Log", FALSE, NoText, l)
Success(b) == Event("Success", b, NoText, NoLog)
DataJson(t) == Event("DataJson", FALSE, t, NoLog)
ElementsJson(t) == Event("ElementsJson", FALSE, t, NoLog)
ResultJson(t) == Event("ResultJson", FALSE, t, NoLog)

\* Result<XResponse, StagehandError>
Ok(ev) == [ok |-> TRUE, event |-> ev, err |-> NoErr]
Err(e) == [ok |-> FALSE, event |-> NoEvent, err |-> e]

\* Result<serde_json::Value, StagehandError>: what the pump puts in the channel.
OkJson(json) == [ok |-> TRUE, json |-> json, err |-> NoErr]
ErrJson(e) == [ok |-> FALSE, json |-> NullFrame, err |-> e]

\* The terminal event of each operation for a payload: the "finished" arm and
\* the arm without discriminator differ only in where they read the payload.
\* Variant: the "finished" arm reads the payload where the arm without
\* discriminator reads it, at the top of the frame.
FinishedEvent_from_frame(op, json) ==
    CASE op = "act" -> Success(UnwrapOrTrue(json.success))
      [] op = "extract" -> DataJson(FrameText(json))
      [] op = "observe" -> ElementsJson(FrameText(json))
      [] op = "execute" -> ResultJson(FrameText(json))

FinishedEvent(op, json) ==
    CASE op = "act" -> Success(UnwrapOrTrue(ResultSuccess(json.result)))
      [] op = "extract" -> DataJson(ResultText(json))
      [] op = "observe" -> ElementsJson(ResultText(json))
      [] op = "execute" -> ResultJson(ResultText(json))

BareEvent(op, json) ==
    CASE op = "act" -> Success(UnwrapOrTrue(json.success))
      [] op = "extract" -> DataJson(FrameText(json))
      [] op = "observe" -> ElementsJson(FrameText(json))
      [] op = "execute" -> ResultJson(FrameText(json))

\* Variant: a system frame with any status but "finished" is an error.
DecodeJson_strict_status(op, json) ==
    IF json.type # "absent"
    THEN CASE json.type = "system" ->
                (CASE json.status = "finished" -> Ok(FinishedEvent(op, json))
                   [] OTHER -> Err(Api(UnwrapOrUnknown(json.error))))
           [] json.type = "log" ->
                (IF parse_log_event(json) # None
                 THEN Ok(Log(parse_log_event(json)[1]))
                 ELSE Ok(NoEvent))
           [] OTHER -> Ok(NoEvent)
    ELSE Ok(BareEvent(op, json))

\* The closure given to json_stream.map(...) by act, extract, observe, execute.
DecodeJson(op, json) ==
    IF json.type # "absent"
    THEN CASE json.type = "system" ->
                (CASE json.status = "finished" -> Ok(FinishedEvent(op, json))
                   [] json.status = "error" -> Err(Api(UnwrapOrUnknown(json.error)))
                   [] OTHER -> Ok(NoEvent))
           [] json.type = "log" ->
                (IF parse_log_event(json) # None
                 THEN Ok(Log(parse_log_event(json)[1]))
                 ELSE Ok(NoEvent))
           [] OTHER -> Ok(NoEvent)
    ELSE Ok(BareEvent(op, json))

\* item.and_then(decode): an Err item of the channel passes through unchanged.
Decode(op, item) == IF item.ok THEN DecodeJson(op, item.json) ELSE Err(item.err)

\* ------------------------------------------------------- init responses
\* InitResponse { event: Option<InitResponseEvent> } inside a Result.
InitEvent(tag, sid) == [tag |-> tag, session_id |-> sid]
InitOk(ev) == [ok |-> TRUE, event |-> ev, err |-> NoErr]
InitErr(e) == [ok |-> FALSE, event |-> InitEvent("None", ""), err |-> e]

\* The body of the response to POST /sessions/start, reduced to what init reads.
\*   sent      : .send().await and response.json().await both succeeded
\*   success   : json["success"].as_bool()
\*   error     : json["error"].as_str()
\*   available : json["data"]["available"].as_bool()
\*   sessionId : json["data"]["sessionId"].as_str()
StartResponse(sent, su, er, av, sid) ==
    [sent |-> sent, success |-> su, error |-> er, available |-> av, sessionId |-> sid]

StartResponses ==
    {StartResponse(FALSE, "absent", "absent", "absent", "absent"),
     StartResponse(TRUE, "false", "unauthorized", "absent", "absent"),
     StartResponse(TRUE, "absent", "absent", "true", "sess-a"),
     StartResponse(TRUE, "true", "absent", "false", "sess-a"),
     StartResponse(TRUE, "true", "absent", "absent", "sess-a"),
     StartResponse(TRUE, "true", "absent", "true", "absent"),
     StartResponse(TRUE, "true", "absent", "true", "")}
    \cup {StartResponse(TRUE, "true", "absent", "true", sid) : sid \in SessionIds}

\* No start response: the last facade call was not an init over REST.
NoResponse == StartResponse(FALSE, "none", "none", "none", "none")

\* Option<bool>::unwrap_or(false)
UnwrapOrFalse(b) == b = "true"

\* Option<&str>::unwrap_or("")
UnwrapOrEmpty(s) == IF s = "absent" THEN "" ELSE s

\* What a Transport method returns: Err(e), or Ok(stream) with the items the
\* stream will yield (init's stream is finite and already determined).
CallErr(e) == [ok |-> FALSE, err |-> e, stream |-> <<>>]
CallOk(stream) == [ok |-> TRUE, err |-> NoErr, stream |-> stream]

\* Variant: the availability flag of the response is not looked at.
RestTransport_init_unchecked_available(resp) ==
    IF ~resp.sent THEN CallErr(Transport("error sending request"))
    ELSE IF ~UnwrapOrFalse(resp.success)
    THEN CallErr(Api(UnwrapOrUnknown(resp.error)))
    ELSE CallOk(<<InitOk(InitEvent("Result", UnwrapOrEmpty(resp.sessionId)))>>)

\* RestTransport::init on a start response.
RestTransport_init(resp) ==
    IF ~resp.sent THEN CallErr(Transport("error sending request"))
    ELSE IF ~UnwrapOrFalse(resp.success)
    THEN CallErr(Api(UnwrapOrUnknown(resp.error)))
    ELSE IF ~UnwrapOrFalse(resp.available)
    THEN CallErr(Api("Stagehand API not available for this account"))
    ELSE CallOk(<<InitOk(InitEvent("Result", UnwrapOrEmpty(resp.sessionId)))>>)

\* The Transport trait lets init return any stream of InitResponse results: the
\* items such a stream may carry, and the streams of at most MaxInitItems items.
InitItems ==
    {InitOk(InitEvent("Log", "")), InitOk(InitEvent("None", "")),
     InitOk(InitEvent("Result", "")), InitErr(Transport("connection reset"))}
    \cup {InitOk(InitEvent("Result", sid)) : sid \in SessionIds}

RECURSIVE SeqsUpTo(_, _)
SeqsUpTo(S, n) ==
    IF n = 0 THEN {<<>>}
    ELSE LET shorter == SeqsUpTo(S, n - 1)
         IN  shorter \cup {Append(s, x) : s \in shorter, x \in S}

TraitInitStreams == {CallOk(s) : s \in SeqsUpTo(InitItems, MaxInitItems)}

\* The loop of Stagehand::init over the items of the stream, from item i on:
\* the outcome, the session id it stores (None: the cell is not assigned) and
\* the number of items it took from the stream.
InitDone(ok, e, sid, n) == [ok |-> ok, err |-> e, session_id |-> sid, consumed |-> n]

\* Variant: the first InitResult is taken whether or not its session id is empty.
RECURSIVE InitLoop_any_result(_, _)
InitLoop_any_result(stream, i) ==
    IF i > Len(stream)
    THEN InitDone(FALSE, Api("Init stream ended without a session ID."), None, Len(stream))
    ELSE LET item == stream[i]
         IN  IF item.ok
             THEN IF item.event.tag = "Result"
                  THEN InitDone(TRUE, NoErr, Some(item.event.session_id), i)
                  ELSE InitLoop_any_result(stream, i + 1)
             ELSE InitDone(FALSE, item.err, None, i)

\* Variant: the end of the stream is reported as success.
RECURSIVE InitLoop_silent_end(_, _)
InitLoop_silent_end(stream, i) ==
    IF i > Len(stream)
    THEN InitDone(TRUE, NoErr, None, Len(stream))
    ELSE LET item == stream[i]
         IN  IF item.ok
             THEN IF item.event.tag = "Result" /\ item.event.session_id # ""
                  THEN InitDone(TRUE, NoErr, Some(item.event.session_id), i)
                  ELSE InitLoop_silent_end(stream, i + 1)
             ELSE InitDone(FALSE, item.err, None, i)

\* Variant: an error item is passed over like a log item.
RECURSIVE InitLoop_skip_errors(_, _)
InitLoop_skip_errors(stream, i) ==
    IF i > Len(stream)
    THEN InitDone(FALSE, Api("Init stream ended without a session ID."), None, Len(stream))
    ELSE LET item == stream[i]
         IN  IF item.ok /\ item.event.tag = "Result" /\ item.event.session_id # ""
             THEN InitDone(TRUE, NoErr, Some(item.event.session_id), i)
             ELSE InitLoop_skip_errors(stream, i + 1)

RECURSIVE InitLoop(_, _)
InitLoop(stream, i) ==
    IF i > Len(stream)
    THEN InitDone(FALSE, Api("Init stream ended without a session ID."), None, Len(stream))
    ELSE LET item == stream[i]
         IN  IF item.ok
             THEN IF item.event.tag = "Result" /\ item.event.session_id # ""
                  THEN InitDone(TRUE, NoErr, Some(item.event.session_id), i)
                  ELSE InitLoop(stream, i + 1)
             ELSE InitDone(FALSE, item.err, None, i)

\* Stagehand::init on what transport.init returned.
StagehandInit(call) ==
    IF ~call.ok THEN InitDone(FALSE, call.err, None, 0) ELSE InitLoop(call.stream, 1)

\* Variant: a missing session id is passed on as the empty string.
RequireSession_unchecked(sid) ==
    [ok |-> TRUE, err |-> NoErr, id |-> IF sid = None THEN "" ELSE sid[1]]

\* self.session_id.as_ref().ok_or_else(|| Api("Session not initialized"))
RequireSession(sid) ==
    IF sid = None THEN [ok |-> FALSE, err |-> Api("Session not initialized"), id |-> ""]
    ELSE [ok |-> TRUE, err |-> NoErr, id |-> sid[1]]

\* No init stream: the last facade call was not init.
NoInit == CallOk(<<>>)

\* The outcome of a facade call, as the caller sees it.
CallResult(op, ok, e, n) == [op |-> op, ok |-> ok, err |-> e, consumed |-> n]

\* An HTTP request handed to the network: the operation and the session id of
\* its path (init's path has none).
\* Variant: the path is built without the session id.
Request_unaddressed(op, sid) == [op |-> op, sid |-> None]
Request(op, sid) == [op |-> op, sid |-> sid]

\* ---------------------------------------------------------------- connect
\* The process environment, reduced to the variables RestTransport::new reads;
\* "absent" stands for a variable std::env::var answers with Err.
Env(openai, anthropic, key, project) ==
    [OPENAI_API_KEY |-> openai, ANTHROPIC_API_KEY |-> anthropic,
     BROWSERBASE_API_KEY |-> key, BROWSERBASE_PROJECT_ID |-> project]
Envs ==
    {Env(o, a, k, p) : o \in {"absent", "sk-openai"}, a \in {"absent", "sk-anthropic"},
                       k \in {"absent", "bb-key"}, p \in {"absent", "proj-1"}}
\* No environment: the last facade call was not connect.
NoEnv == Env("absent", "absent", "absent", "absent")

\* The fields of RestTransport that come from the environment.
RestTransport(key, project, model_key) ==
    [api_key |-> key, project_id |-> project, model_api_key |-> model_key]

\* Result<RestTransport, StagehandError>
NewOk(t) == [ok |-> TRUE, err |-> NoErr, transport |-> Some(t)]
NewErr(e) == [ok |-> FALSE, err |-> e, transport |-> None]

\* Variant: a missing project id is replaced by the empty string.
RestTransport_new_default_project(env) ==
    IF env.OPENAI_API_KEY = "absent" /\ env.ANTHROPIC_API_KEY = "absent"
    THEN NewErr(MissingApiKey("OPENAI_API_KEY or ANTHROPIC_API_KEY"))
    ELSE IF env.BROWSERBASE_API_KEY = "absent"
    THEN NewErr(MissingApiKey("BROWSERBASE_API_KEY"))
    ELSE NewOk(RestTransport(env.BROWSERBASE_API_KEY,
                             IF env.BROWSERBASE_PROJECT_ID = "absent" THEN ""
                             ELSE env.BROWSERBASE_PROJECT_ID,
                             IF env.OPENAI_API_KEY # "absent" THEN env.OPENAI_API_KEY
                             ELSE env.ANTHROPIC_API_KEY))

\* RestTransport::new: the model key first, OPENAI_API_KEY before
\* ANTHROPIC_API_KEY, then the service key, then the project id.
RestTransport_new(env) ==
    IF env.OPENAI_API_KEY = "absent" /\ env.ANTHROPIC_API_KEY = "absent"
    THEN NewErr(MissingApiKey("OPENAI_API_KEY or ANTHROPIC_API_KEY"))
    ELSE IF env.BROWSERBASE_API_KEY = "absent"
    THEN NewErr(MissingApiKey("BROWSERBASE_API_KEY"))
    ELSE IF env.BROWSERBASE_PROJECT_ID = "absent"
    THEN NewErr(MissingApiKey("BROWSERBASE_PROJECT_ID"))
    ELSE NewOk(RestTransport(env.BROWSERBASE_API_KEY, env.BROWSERBASE_PROJECT_ID,
                             IF env.OPENAI_API_KEY # "absent" THEN env.OPENAI_API_KEY
                             ELSE env.ANTHROPIC_API_KEY))

\* -------------------------------------------------------- request headers
\* The headers of a request, reduced to the credentials and the flag asking
\* for a streamed response ("absent": the header is not set).
Headers(key, project, model_key, flag) ==
    [x_bb_api_key |-> key, x_bb_project_id |-> project, x_model_api_key |-> model_key,
     x_stream_response |-> flag]

\* Variant: the request that ends the session goes out without the project
\* id, and agentExecute without the stream flag.
HeadersOf_partial(op, t) ==
    Headers(t.api_key,
            IF op = "close" THEN "absent" ELSE t.project_id,
            t.model_api_key,
            CASE op = "init" -> "absent"
              [] op = "close" -> "false"
              [] op = "execute" -> "absent"
              [] OTHER -> "true")

\* The .header(..) calls of init, of execute_stream and of close.
HeadersOf(op, t) ==
    Headers(t.api_key, t.project_id, t.model_api_key,
            CASE op = "init" -> "absent"
              [] op = "close" -> "false"
              [] OTHER -> "true")

\* An HTTP request handed to the network: its path, its headers, and what
\* became of it: "ok" or "failed" for .send().await of init and close,
\* "pending" for the request the SSE client makes once its stream is polled.
Http(op, sid, t, delivery) ==
    [request |-> Request(op, sid), headers |-> HeadersOf(op, t), delivery |-> delivery]

\* ---------------------------------------------------------- request bodies
\* Model (the caller's type), ModelConfiguration (AgentConfig's type) and
\* ModelObj, with Option fields as None / Some(x).
ModelObj(name, key, url) == [model_name |-> name, api_key |-> key, base_url |-> url]
Model_String(s) == [form |-> "String", model_name |-> s, api_key |-> None, base_url |-> None]
Model_Config(name, key, url) ==
    [form |-> "Config", model_name |-> name, api_key |-> key, base_url |-> url]
ModelConfiguration_String(s) ==
    [form |-> "String", model_name |-> s, api_key |-> None, base_url |-> None]
ModelConfiguration_Object(obj) ==
    [form |-> "Object", model_name |-> obj.model_name, api_key |-> obj.api_key,
     base_url |-> obj.base_url]

ModelNames == {"openai/gpt-4o"}
ApiKeys == {None, Some("sk-1")}
BaseUrls == {None, Some("https://llm.example")}
Models ==
    {Model_String(n) : n \in ModelNames}
    \cup {Model_Config(n, k, u) : n \in ModelNames, k \in ApiKeys, u \in BaseUrls}

\* impl From<Model> for ModelConfiguration
From_Model(m) ==
    IF m.form = "String" THEN ModelConfiguration_String(m.model_name)
    ELSE ModelConfiguration_Object(ModelObj(m.model_name, m.api_key, m.base_url))

ModelConfigurations == {From_Model(m) : m \in Models}

\* The JSON value a model is sent as: an object with the keys modelName,
\* apiKey and baseURL ("absent": no such key), or a bare string.
JsonObject(name, key, url) ==
    [json |-> "object", text |-> "", modelName |-> name, apiKey |-> key, baseURL |-> url]
JsonString(s) ==
    [json |-> "string", text |-> s, modelName |-> "absent", apiKey |-> "absent",
     baseURL |-> "absent"]
JsonAbsent ==
    [json |-> "absent", text |-> "", modelName |-> "absent", apiKey |-> "absent",
     baseURL |-> "absent"]

\* #[serde(skip_serializing_if = "Option::is_none")] on a string field
SkipIfNone(o) == IF o = None THEN "absent" ELSE o[1]

\* The derived Serialize of ModelObj.
Serialize_ModelObj(obj) ==
    JsonObject(obj.model_name, SkipIfNone(obj.api_key), SkipIfNone(obj.base_url))

\* Variant: the enum serializes as serde's untagged derive would, the String
\* variant as a bare string.
Serialize_ModelConfiguration_untagged(mc) ==
    IF mc.form = "String" THEN JsonString(mc.model_name)
    ELSE Serialize_ModelObj(ModelObj(mc.model_name, mc.api_key, mc.base_url))

\* impl Serialize for ModelConfiguration
Serialize_ModelConfiguration(mc) ==
    IF mc.form = "String" THEN Serialize_ModelObj(ModelObj(mc.model_name, None, None))
    ELSE Serialize_ModelObj(ModelObj(mc.model_name, mc.api_key, mc.base_url))

\* model.map(|m| match m { ... }) of act, extract and observe
ToModelObj(m) ==
    IF m.form = "String" THEN ModelObj(m.model_name, None, None)
    ELSE ModelObj(m.model_name, m.api_key, m.base_url)

\* The schema a caller hands to extract: a value whose Serialize impl succeeds,
\* or one for which it fails (a map whose keys are not strings).  The other
\* operations take no schema.
Schemas == {"object", "unserializable"}
NoSchema == "none"
SchemasOf(op) == IF op = "extract" THEN Schemas ELSE {NoSchema}

\* Variant: a value that cannot be serialized becomes null.
to_value_null(schema) == [ok |-> TRUE, msg |-> ""]
\* serde_json::to_value(schema); msg is the error's to_string().
to_value(schema) ==
    IF schema = "unserializable"
    THEN [ok |-> FALSE, msg |-> "key must be a string"]
    ELSE [ok |-> TRUE, msg |-> ""]

\* The arguments of a stream operation that shape its body:
\*   model   : Option<Model> of act, extract, observe;
\*             AgentConfig.model: Option<ModelConfiguration> of execute
\*   timeout : Option<u32>
\*   extra   : act's variables are not empty; extract's and observe's selector
\*             is Some
Args(model, timeout, extra) == [model |-> model, timeout |-> timeout, extra |-> extra]
Timeouts == {None, Some(30000)}
ArgsOf(op) ==
    IF op = "execute"
    THEN {Args(m, None, FALSE) : m \in {None} \cup {Some(mc) : mc \in ModelConfigurations}}
    ELSE {Args(m, t, x) : m \in {None} \cup {Some(mo) : mo \in Models},
                          t \in Timeouts, x \in BOOLEAN}

\* The body of the request, reduced to the model and the options around it:
\*   options : the "options" key is present
\*   model   : options.model, for execute agentConfig.model
\*   timeout : options.timeout
\*   extra   : options.variables, options.selector
Body(options, model, timeout, extra) ==
    [options |-> options, model |-> model, timeout |-> timeout, extra |-> extra]
NoBody == Body(FALSE, JsonAbsent, None, FALSE)

\* serde_json::to_value(payload) of act, extract, observe and execute.
BuildBody(op, a) ==
    IF op = "execute"
    THEN Body(FALSE,
              IF a.model = None THEN JsonAbsent ELSE Serialize_ModelConfiguration(a.model[1]),
              None, FALSE)
    ELSE LET model_obj == IF a.model = None THEN None ELSE Some(ToModelObj(a.model[1]))
         IN  IF model_obj # None \/ a.extra \/ a.timeout # None
             THEN Body(TRUE,
                       IF model_obj = None THEN JsonAbsent ELSE Serialize_ModelObj(model_obj[1]),
                       a.timeout, a.extra)
             ELSE NoBody

\* A request on its way to the service: the arguments of the call and the body.
Outgoing(a, b) == [args |-> a, body |-> b]

\* #[serde(rename_all = "camelCase")] on the payload and options structs: the
\* JSON key of a field.  Words are joined at underscores; a name of one word is
\* left as it is.
camelCase(field) ==
    CASE field = "frame_id" -> "frameId"
      [] field = "model_name" -> "modelName"
      [] field = "api_key" -> "apiKey"
      [] OTHER -> field

\* The fields of ActOptions, ExtractOptions and ObserveOptions.
OptionsFields(op) ==
    CASE op = "act" -> {"model", "variables", "timeout"}
      [] op \in {"extract", "observe"} -> {"model", "timeout", "selector"}
      [] OTHER -> {}

\* skip_serializing_if = "Option::is_none": the fields that are written.
FieldPresent(b, field) ==
    CASE field = "model" -> b.model # JsonAbsent
      [] field = "timeout" -> b.timeout # None
      [] OTHER -> b.extra

\* The keys of the "options" object of a body, and the number under a key
\* that holds the timeout.
OptionsKeys(op, b) ==
    IF b.options
    THEN {camelCase(f) : f \in {g \in OptionsFields(op) : FieldPresent(b, g)}}
    ELSE {}
TimeoutUnder(op, b, key) ==
    IF key \in OptionsKeys(op, b) /\ key = camelCase("timeout") THEN b.timeout ELSE None

\* ------------------------------------------------------------ push stream
\* What sse_client.stream().next().await yields to the pump, besides None:
\*   "event" : Some(Ok(SSE::Event(e))); valid says whether e.data is JSON text,
\*             json is the value it parses to, raw the text of e.data otherwise
\*   "other" : Some(Ok(_)) for the SSE variants that are no event (a comment)
\*   "error" : Some(Err(e)); raw is e.to_string()
Sse(kind, valid, json, raw) == [kind |-> kind, valid |-> valid, json |-> json, raw |-> raw]
SseEvent(json) == Sse("event", TRUE, json, "")
SseMalformed == Sse("event", FALSE, NullFrame, "<html>")
SseComment == Sse("other", FALSE, NullFrame, "")
SseError == Sse("error", FALSE, NullFrame, "connection reset")

SseInputs == {SseEvent(j) : j \in JsonFrames} \cup {SseMalformed, SseComment, SseError}

\* serde_json::from_str::<serde_json::Value>(&e.data)
from_str(sse) == IF sse.valid THEN Some(sse.json) ELSE None

\* The pump between two reads: the item it is sending, and where it goes on
\* when the send succeeds (then) and when it fails (else).
Sending(item, then, else) == [item |-> item, then |-> then, else |-> else]
NoSending == Sending(ErrJson(NoErr), "next", "next")

\* Variant: an event whose data is no JSON text is skipped.
PumpMatch_skip_malformed(sse) ==
    CASE sse.kind = "event" ->
            (IF from_str(sse) # None
             THEN Some(Sending(OkJson(from_str(sse)[1]), "next", "done"))
             ELSE None)
      [] sse.kind = "error" -> Some(Sending(ErrJson(Transport(sse.raw)), "done", "done"))
      [] OTHER -> None

\* Variant: a deadline on the whole stream, which an SSE comment does not
\* extend: the comment finds it passed and the pump reports a timeout and stops.
PumpMatch_total_deadline(sse) ==
    CASE sse.kind = "event" ->
            (IF from_str(sse) # None
             THEN Some(Sending(OkJson(from_str(sse)[1]), "next", "done"))
             ELSE Some(Sending(ErrJson(Api("Failed to parse SSE event: " \o sse.raw)),
                               "next", "next")))
      [] sse.kind = "error" -> Some(Sending(ErrJson(Transport(sse.raw)), "done", "done"))
      [] OTHER -> Some(Sending(ErrJson([kind |-> "Timeout", msg |-> "deadline exceeded"]),
                               "done", "done"))

\* Variant: once an item is sent the task neither reads on nor returns: it
\* stays parked with the sender alive.
PumpMatch_hold_sender(sse) ==
    CASE sse.kind = "event" ->
            (IF from_str(sse) # None
             THEN Some(Sending(OkJson(from_str(sse)[1]), "parked", "done"))
             ELSE Some(Sending(ErrJson(Api("Failed to parse SSE event: " \o sse.raw)),
                               "parked", "parked")))
      [] sse.kind = "error" -> Some(Sending(ErrJson(Transport(sse.raw)), "parked", "done"))
      [] OTHER -> None

\* Variant: the loop is left after the error of a frame that is no JSON.
PumpMatch_stop_on_malformed(sse) ==
    CASE sse.kind = "event" ->
            (IF from_str(sse) # None
             THEN Some(Sending(OkJson(from_str(sse)[1]), "next", "done"))
             ELSE Some(Sending(ErrJson(Api("Failed to parse SSE event: " \o sse.raw)),
                               "done", "done")))
      [] sse.kind = "error" -> Some(Sending(ErrJson(Transport(sse.raw)), "done", "done"))
      [] OTHER -> None

\* Variant: after reporting an error of the SSE stream the loop reads on.
PumpMatch_continue_after_error(sse) ==
    CASE sse.kind = "event" ->
            (IF from_str(sse) # None
             THEN Some(Sending(OkJson(from_str(sse)[1]), "next", "done"))
             ELSE Some(Sending(ErrJson(Api("Failed to parse SSE event: " \o sse.raw)),
                               "next", "next")))
      [] sse.kind = "error" -> Some(Sending(ErrJson(Transport(sse.raw)), "next", "done"))
      [] OTHER -> None

\* The body of the pump's `while let Some(event)` loop up to the send: the
\* item to send for what the SSE stream yielded, or None when there is none.
PumpMatch(sse) ==
    CASE sse.kind = "event" ->
            (IF from_str(sse) # None
             THEN Some(Sending(OkJson(from_str(sse)[1]), "next", "done"))
             ELSE Some(Sending(ErrJson(Api("Failed to parse SSE event: " \o sse.raw)),
                               "next", "next")))
      [] sse.kind = "error" -> Some(Sending(ErrJson(Transport(sse.raw)), "done", "done"))
      [] OTHER -> None

\* tokio mpsc Sender::send: it fails at once when the receiver is gone, it
\* completes when the channel has room, and it stays suspended otherwise.
SendFails(h) == h = "dropped"
\* Variant: an unbounded channel, whose send always completes.
SendReady_unbounded(c, h) == TRUE
SendReady(c, h) == Len(c) < ChannelCapacity
\* Variant: an error item is lost on its way into the channel.
Enqueue_drop_errors(c, item) == IF item.ok THEN Append(c, item) ELSE c
Enqueue(c, item) == Append(c, item)

\* One of two streams that are open at the same time: what execute_stream
\* creates for a call (the SSE stream read so far, the pump, the channel) and
\* the handle it returns.
PairStream(op, rcvd, pc, snd, ch, h, dlv, end) ==
    [op |-> op, received |-> rcvd, pump_pc |-> pc, sending |-> snd, chan |-> ch,
     handle |-> h, delivered |-> dlv, ended |-> end]
NoPairStream == PairStream("none", <<>>, "idle", NoSending, <<>>, "none", <<>>, FALSE)

\* ------------------------------------------------------------------ state
VARIABLES
    config_valid,     \* the base URL and the header values are well-formed
    transport,        \* Stagehand.transport: None while no facade exists
    last_env,         \* the environment connect read, when the last call was connect
    last_schema,      \* the schema extract was given, when the last call was extract
    last_response,    \* the start response REST init read, when the last call was that
    session_id,       \* Stagehand.session_id: Option<String>
    transport_calls,  \* calls of a Transport method made by the facade
    last_request,     \* the last HTTP request handed to the network, if any
    issued,           \* the HTTP requests of the last facade call, in order
    returned,         \* the Option<String> the last call returned, if it was a getter
    last_result,      \* what the last facade call returned
    last_init,        \* what transport.init returned, when the last call was init
    stream_op,        \* the operation whose stream occupies the stream slot
    script,           \* what the server and consumer of this stream do
    received,         \* what the pump has read from the SSE stream, in order
    pump_pc,          \* "idle" (no pump), "next", "send" or "done"
    sending,          \* the send the pump is suspended on
    chan,             \* the items in the mpsc channel
    handle,           \* the StreamHandle: "none", "held" or "dropped"
    stalled,          \* the consumer is not polling
    delivered,        \* the items the consumer has taken, in order
    ended,            \* the consumer has seen the end of the stream
    idle_expired,     \* more than the idle period has passed since the last read
    in_flight,        \* the request of this stream, until the service answers
    open_streams      \* the streams of two calls that are open at the same time

facade == <<config_valid, transport, last_env, last_schema, last_response, session_id, transport_calls, last_request,
           issued, returned, last_result, last_init, open_streams>>
stream == <<stream_op, script, received, pump_pc, sending, chan, handle, stalled,
            delivered, ended, idle_expired, in_flight>>
vars == <<config_valid, transport, last_env, last_schema, last_response, session_id, transport_calls, last_request,
          issued, returned, last_result, last_init,
          stream_op, script, received, pump_pc, sending, chan, handle, stalled,
          delivered, ended, idle_expired, in_flight, open_streams>>

\* Before Stagehand::connect: no facade, nothing called, no stream.
Init ==
    /\ config_valid \in BOOLEAN
    /\ transport = None
    /\ last_env = NoEnv
    /\ last_schema = NoSchema
    /\ last_response = NoResponse
    /\ session_id = None
    /\ transport_calls = 0
    /\ last_request = None
    /\ issued = <<>>
    /\ returned = None
    /\ last_result = CallResult("none", TRUE, NoErr, 0)
    /\ last_init = NoInit
    /\ stream_op = "none"
    /\ script = "none"
    /\ received = <<>>
    /\ pump_pc = "idle"
    /\ sending = NoSending
    /\ chan = <<>>
    /\ handle = "none"
    /\ stalled = FALSE
    /\ delivered = <<>>
    /\ ended = FALSE
    /\ idle_expired = FALSE
    /\ in_flight = None
    /\ open_streams = <<NoPairStream, NoPairStream>>

\* ----------------------------------------------------------------- facade
\* The behaviours explored are a sequence of facade calls, the last of which
\* may open a stream, followed by the life of that stream. The facade and a
\* stream share no state (a stream borrows nothing from the facade), so this
\* leaves out interleavings only, and no behaviour of either.
CallerTurn == transport # None /\ stream_op = "none"

\* Stagehand::connect in an environment: RestTransport::new, and on success
\* the facade with session_id: None.
Stagehand_connect ==
    /\ transport = None
    /\ \E env \in Envs :
          LET new == RestTransport_new(env)
          IN  /\ transport' = new.transport
              /\ last_result' = CallResult("connect", new.ok, new.err, 0)
              /\ last_env' = env
              /\ last_schema' = NoSchema
              /\ last_response' = NoResponse
              /\ UNCHANGED open_streams
              /\ returned' = None
    /\ session_id' = None
    /\ last_init' = NoInit
    /\ issued' = <<>>
    /\ UNCHANGED <<config_valid, transport_calls, last_request, stream>>

\* Variant: an init that fails leaves the facade without a session.
AssignSession_clear_on_failure(cell, sid) == sid
\* self.session_id = Some(res.session_id), reached only when the loop found a
\* session id; every other path of init returns without assigning.
AssignSession(cell, sid) == IF sid # None THEN sid ELSE cell

\* Stagehand::init with the REST transport, for each response of the service,
\* and with any stream the Transport trait allows.
Stagehand_init ==
    /\ CallerTurn
    /\ transport_calls < MaxCalls
    /\ \E rest \in BOOLEAN :
       \E r \in IF rest THEN {x \in StartResponses : config_valid \/ ~x.sent}
                 ELSE {StartResponse(FALSE, "absent", "absent", "absent", "absent")} :
       \E call \in IF rest THEN {RestTransport_init(r)} ELSE TraitInitStreams :
          LET res == StagehandInit(call)
          IN  /\ session_id' = AssignSession(session_id, res.session_id)
              /\ last_result' = CallResult("init", res.ok, res.err, res.consumed)
              /\ last_init' = call
              /\ last_env' = NoEnv
              /\ last_schema' = NoSchema
              /\ last_response' = (IF rest THEN r ELSE NoResponse)
              /\ UNCHANGED open_streams
              /\ returned' = None
              /\ last_request' = IF rest /\ config_valid
                                 THEN Some(Request("init", None)) ELSE last_request
              /\ issued' = IF rest /\ config_valid
                           THEN <<Http("init", None, transport[1],
                                       IF r.sent THEN "ok" ELSE "failed")>>
                           ELSE <<>>
    /\ transport_calls' = transport_calls + 1
    /\ UNCHANGED <<config_valid, transport, stream>>

\* The scripts a stream may follow (described with the pump below).  The burst
\* script exercises the channel between pump and consumer, which is the same
\* code of execute_stream for the four operations: it is followed for act.
ScriptsOf(op) == IF op = "act" THEN {"mixed", "burst", "single"} ELSE {"mixed", "single"}

\* RestTransport::execute_stream: the builder fails on a malformed URL or header
\* value; otherwise the pump is spawned and the receiving half returned.
execute_stream(op, id, body, a) ==
    IF ~config_valid
    THEN /\ last_result' = CallResult(op, FALSE, Transport("invalid url"), 0)
         /\ issued' = <<>>
         /\ UNCHANGED <<last_request, stream>>
    ELSE /\ last_result' = CallResult(op, TRUE, NoErr, 0)
         /\ last_request' = Some(Request(op, Some(id)))
         /\ issued' = <<Http(op, Some(id), transport[1], "pending")>>
         /\ stream_op' = op
         /\ script' \in ScriptsOf(op)
         /\ stalled' = (script' = "burst")
         /\ received' = <<>>
         /\ pump_pc' = "next"
         /\ sending' = NoSending
         /\ chan' = <<>>
         /\ handle' = "held"
         /\ delivered' = <<>>
         /\ ended' = FALSE
         /\ idle_expired' = FALSE
         /\ in_flight' = Some(Outgoing(a, body))

\* Stagehand::act, extract, observe and execute: the session check, for extract
\* the serialization of the schema, then the transport's method, which builds
\* the body and calls execute_stream.
StreamCall(op) ==
    \E schema \in SchemasOf(op) :
    LET req == RequireSession(session_id)
        schema_value == to_value(schema)
    IN  /\ last_schema' = schema
        /\ last_response' = NoResponse
        /\ UNCHANGED open_streams
        /\ last_init' = NoInit
        /\ last_env' = NoEnv
        /\ returned' = None
        /\ IF ~req.ok
           THEN /\ last_result' = CallResult(op, FALSE, req.err, 0)
                /\ issued' = <<>>
                /\ UNCHANGED <<config_valid, transport, session_id, transport_calls, last_request, stream>>
           ELSE IF op = "extract" /\ ~schema_value.ok
           THEN /\ last_result' = CallResult(op, FALSE, Api(schema_value.msg), 0)
                /\ issued' = <<>>
                /\ UNCHANGED <<config_valid, transport, session_id, transport_calls, last_request, stream>>
           ELSE /\ transport_calls < MaxCalls
                /\ transport_calls' = transport_calls + 1
                /\ \E a \in ArgsOf(op) : execute_stream(op, req.id, BuildBody(op, a), a)
                /\ UNCHANGED <<config_valid, transport, session_id>>

Stagehand_act == CallerTurn /\ StreamCall("act")
Stagehand_extract == CallerTurn /\ StreamCall("extract")
Stagehand_observe == CallerTurn /\ StreamCall("observe")
Stagehand_execute == CallerTurn /\ StreamCall("execute")

\* Variant: a POST that failed is sent once more before the error is returned.
RestTransport_close_retry(id, sent) ==
    /\ config_valid \/ ~sent
    /\ last_request' = IF config_valid THEN Some(Request("close", Some(id))) ELSE last_request
    /\ issued' = IF ~config_valid THEN <<>>
                 ELSE IF sent THEN <<Http("close", Some(id), transport[1], "ok")>>
                 ELSE <<Http("close", Some(id), transport[1], "failed"),
                        Http("close", Some(id), transport[1], "failed")>>
    /\ last_result' = IF sent THEN CallResult("close", TRUE, NoErr, 0)
                      ELSE CallResult("close", FALSE, Transport("error sending request"), 0)

\* RestTransport::close: one POST to /sessions/{id}/end; `sent` is whether
\* .send().await succeeded.
RestTransport_close(id, sent) ==
    /\ config_valid \/ ~sent
    /\ last_request' = IF config_valid THEN Some(Request("close", Some(id))) ELSE last_request
    /\ issued' = IF config_valid
                 THEN <<Http("close", Some(id), transport[1], IF sent THEN "ok" ELSE "failed")>>
                 ELSE <<>>
    /\ last_result' = IF sent THEN CallResult("close", TRUE, NoErr, 0)
                      ELSE CallResult("close", FALSE, Transport("error sending request"), 0)

\* Stagehand::close: the session check, then the transport's close.
Stagehand_close ==
    /\ CallerTurn
    /\ LET req == RequireSession(session_id)
       IN  IF ~req.ok
           THEN /\ last_result' = CallResult("close", FALSE, req.err, 0)
                /\ last_init' = NoInit
                /\ last_env' = NoEnv
                /\ last_schema' = NoSchema
                /\ last_response' = NoResponse
                /\ UNCHANGED open_streams
                /\ returned' = None
                /\ issued' = <<>>
                /\ UNCHANGED <<config_valid, transport, session_id, transport_calls, last_request, stream>>
           ELSE /\ transport_calls < MaxCalls
                /\ transport_calls' = transport_calls + 1
                /\ \E sent \in BOOLEAN : RestTransport_close(req.id, sent)
                /\ last_init' = NoInit
                /\ last_env' = NoEnv
                /\ last_schema' = NoSchema
                /\ last_response' = NoResponse
                /\ UNCHANGED open_streams
                /\ returned' = None
                /\ UNCHANGED <<config_valid, transport, session_id, stream>>

\* Variant: the getter takes the value out of the cell.
as_deref_take(cell) == [value |-> cell, cell |-> None]
\* Option::as_deref / Option::as_ref on self.session_id: the value is borrowed
\* and the cell keeps it.
as_deref(cell) == [value |-> cell, cell |-> cell]

\* A getter returns: nothing is called, nothing is sent.
GetterReturns(op, value) ==
    /\ last_result' = CallResult(op, TRUE, NoErr, 0)
    /\ returned' = value
    /\ last_init' = NoInit
    /\ last_env' = NoEnv
    /\ last_schema' = NoSchema
    /\ last_response' = NoResponse
    /\ UNCHANGED open_streams
    /\ issued' = <<>>
    /\ UNCHANGED <<config_valid, transport, transport_calls, last_request, stream>>

\* Stagehand::session_id
Stagehand_session_id ==
    /\ CallerTurn
    /\ session_id' = as_deref(session_id).cell
    /\ GetterReturns("session_id", as_deref(session_id).value)

\* Stagehand::browserbase_cdp_url, with BROWSERBASE_API_KEY as the environment
\* has it at the time of the call.
\* Variant: the URL names the key only.
CdpUrl_without_session(sid, key) == "wss://connect.browserbase.com?apiKey=" \o key
\* format!("wss://connect.browserbase.com?sessionId={}&apiKey={}", ..)
CdpUrl(sid, key) == "wss://connect.browserbase.com?sessionId=" \o sid \o "&apiKey=" \o key
Stagehand_browserbase_cdp_url ==
    /\ CallerTurn
    /\ session_id' = as_deref(session_id).cell
    /\ \E key \in {"absent", "bb-key"} :
          GetterReturns("browserbase_cdp_url",
                        IF as_deref(session_id).value = None \/ key = "absent" THEN None
                        ELSE Some(CdpUrl(as_deref(session_id).value[1], key)))

\* ------------------------------------------------------------------- pump
\* The scripts of a stream bound what its server and consumer do:
\*   "mixed" : the server sends at most MaxFrames frames of any kind, may pause
\*             and may close the connection at any time; the consumer polls
\*   "burst" : the server sends BurstLen frames without pause and closes: log
\*             frames, but for the first frame to find the channel full,
\*             which may be no JSON; the consumer polls only once the pump
\*             is suspended on a send
\*   "single": the server sends at most one JSON frame, of any shape, and may
\*             close the connection at any time; the consumer polls
Sendable ==
    CASE script = "mixed" -> IF Len(received) < MaxFrames THEN SseInputs ELSE {}
      [] script = "burst" -> IF Len(received) = ChannelCapacity
                             THEN {SseEvent(LogFrame), SseMalformed}
                             ELSE IF Len(received) < BurstLen THEN {SseEvent(LogFrame)}
                             ELSE {}
      [] script = "single" -> IF received = <<>> THEN {SseEvent(j) : j \in AnyFrames} ELSE {}
      [] OTHER -> {}

\* stream.next().await yields Some(sse): the loop body runs up to its send.
PumpNext ==
    /\ pump_pc = "next"
    /\ \E sse \in Sendable :
          /\ received' = Append(received, sse)
          /\ IF PumpMatch(sse) = None
             THEN UNCHANGED <<pump_pc, sending>>
             ELSE pump_pc' = "send" /\ sending' = PumpMatch(sse)[1]
    /\ idle_expired' = FALSE
    /\ in_flight' = None
    /\ UNCHANGED <<facade, stream_op, script, chan, handle, stalled, delivered, ended>>

\* stream.next().await yields None: the loop ends, the task returns and the
\* sender is dropped.
PumpEnd ==
    /\ pump_pc = "next"
    /\ script \in {"mixed", "single"} \/ Len(received) = BurstLen
    /\ pump_pc' = "done"
    /\ idle_expired' = FALSE
    /\ in_flight' = None
    /\ UNCHANGED <<facade, stream_op, script, received, sending, chan, handle, stalled,
                   delivered, ended>>

\* tx.send(item).await completes, with Ok or with Err.
PumpSend ==
    /\ pump_pc = "send"
    /\ IF SendFails(handle)
       THEN pump_pc' = sending.else /\ UNCHANGED chan
       ELSE /\ SendReady(chan, handle)
            /\ chan' = Enqueue(chan, sending.item)
            /\ pump_pc' = sending.then
    /\ sending' = NoSending
    /\ UNCHANGED <<facade, stream_op, script, received, handle, stalled, delivered, ended,
                   idle_expired, in_flight>>

\* No frame arrives for longer than the idle period while the pump waits.
IdleElapse ==
    /\ pump_pc = "next"
    /\ script = "mixed"
    /\ ~idle_expired
    /\ idle_expired' = TRUE
    /\ UNCHANGED <<facade, stream_op, script, received, pump_pc, sending, chan, handle,
                   stalled, delivered, ended, in_flight>>

\* --------------------------------------------------------------- consumer
\* stream.next().await on the handle: ReceiverStream yields the head of the
\* channel through the operation's map closure, or None once the channel is
\* empty and the sender dropped.
Poll ==
    /\ handle = "held"
    /\ ~stalled
    /\ ~ended
    /\ IF chan # <<>>
       THEN /\ delivered' = Append(delivered, Decode(stream_op, Head(chan)))
            /\ chan' = Tail(chan)
            /\ UNCHANGED ended
       ELSE /\ pump_pc = "done"
            /\ ended' = TRUE
            /\ UNCHANGED <<delivered, chan>>
    /\ UNCHANGED <<facade, stream_op, script, received, pump_pc, sending, handle, stalled,
                   idle_expired, in_flight>>

\* The consumer of a burst polls again once the pump is suspended on a full
\* channel, or has ended.
Resume ==
    /\ handle = "held"
    /\ stalled
    /\ \/ pump_pc = "send" /\ Len(chan) = ChannelCapacity
       \/ pump_pc = "done"
    /\ stalled' = FALSE
    /\ UNCHANGED <<facade, stream_op, script, received, pump_pc, sending, chan, handle,
                   delivered, ended, idle_expired, in_flight>>

\* The consumer drops the handle: the receiver goes, and with it what the
\* channel still held.
Drop ==
    /\ handle = "held"
    /\ handle' = "dropped"
    /\ chan' = <<>>
    /\ UNCHANGED <<facade, stream_op, script, received, pump_pc, sending, stalled,
                   delivered, ended, idle_expired, in_flight>>

Next ==
    \/ Stagehand_connect
    \/ Stagehand_init
    \/ Stagehand_act
    \/ Stagehand_extract
    \/ Stagehand_observe
    \/ Stagehand_execute
    \/ Stagehand_close
    \/ Stagehand_session_id
    \/ Stagehand_browserbase_cdp_url
    \/ PumpNext
    \/ PumpEnd
    \/ PumpSend
    \/ IdleElapse
    \/ Poll
    \/ Resume
    \/ Drop

Spec == Init /\ [][Next]_vars

\* The tokio runtime runs the pump whenever its send can complete; whether the
\* server sends and whether the consumer polls is up to them.
FairSpec == Spec /\ WF_vars(PumpSend)

\* The same runtime with a server that does not stay silent for ever, it sends
\* its frames and then closes the connection, and a consumer that polls for as
\* long as it holds the handle.
ClosingSpec ==
    /\ Spec
    /\ WF_vars(PumpSend)
    /\ WF_vars(PumpNext) /\ WF_vars(PumpEnd)
    /\ WF_vars(Poll) /\ WF_vars(Resume)

\* ------------------------------------------------- two streams at a time
\* The streams the stream operations return borrow nothing from the facade
\* (Pin<Box<dyn Stream + Send>>), so a caller may call a second operation while
\* it still polls the stream of the first.  PairSpec follows two such calls on
\* a connected facade with a session, the responses of the two requests being
\* made of different frames.
PairOps == <<{"act", "extract"}, {"observe", "execute"}>>
PairFrames ==
    <<{SseEvent(LogFrame), SseEvent(FinishedFrame)},
      {SseEvent(ErrorFrame), SseError}>>

\* Variant: one channel, made once, that every call sends into and reads from.
ChannelOf_shared(i) == 1
\* let (tx, rx) = tokio::sync::mpsc::channel(100) in execute_stream: the
\* channel of call i is the one made by call i.
ChannelOf(i) == i

\* After connect and an init over REST that stored "sess-a".
PairInit ==
    /\ config_valid = TRUE
    /\ transport = Some(RestTransport("bb-key", "proj-1", "sk-openai"))
    /\ last_env = NoEnv
    /\ last_schema = NoSchema
    /\ last_response = StartResponse(TRUE, "true", "absent", "true", "sess-a")
    /\ session_id = Some("sess-a")
    /\ transport_calls = 1
    /\ last_request = Some(Request("init", None))
    /\ issued = <<Http("init", None, RestTransport("bb-key", "proj-1", "sk-openai"), "ok")>>
    /\ returned = None
    /\ last_result = CallResult("init", TRUE, NoErr, 1)
    /\ last_init = CallOk(<<InitOk(InitEvent("Result", "sess-a"))>>)
    /\ stream_op = "none"
    /\ script = "none"
    /\ received = <<>>
    /\ pump_pc = "idle"
    /\ sending = NoSending
    /\ chan = <<>>
    /\ handle = "none"
    /\ stalled = FALSE
    /\ delivered = <<>>
    /\ ended = FALSE
    /\ idle_expired = FALSE
    /\ in_flight = None
    /\ open_streams = <<NoPairStream, NoPairStream>>

\* What a step of a pump or of the consumer of the pair leaves alone.
PairQuiet ==
    UNCHANGED <<config_valid, transport, last_env, last_schema, last_response, session_id,
                transport_calls, last_request, issued, returned, last_result, last_init,
                stream>>

\* The i-th call of a stream operation: the session check passes, the request
\* is built and execute_stream makes a channel, spawns a pump and returns the
\* handle.
PairCall(i) ==
    /\ open_streams[i].op = "none"
    /\ i = 1 \/ open_streams[1].op # "none"
    /\ RequireSession(session_id).ok
    /\ transport_calls < MaxCalls
    /\ \E op \in PairOps[i] :
          /\ open_streams' =
                [open_streams EXCEPT ![i] = PairStream(op, <<>>, "next", NoSending, <<>>,
                                                       "held", <<>>, FALSE)]
          /\ last_result' = CallResult(op, TRUE, NoErr, 0)
          /\ last_request' = Some(Request(op, Some(RequireSession(session_id).id)))
          /\ issued' = <<Http(op, Some(RequireSession(session_id).id), transport[1],
                              "pending")>>
          /\ last_schema' = IF op = "extract" THEN "object" ELSE NoSchema
    /\ transport_calls' = transport_calls + 1
    /\ last_init' = NoInit
    /\ last_env' = NoEnv
    /\ last_response' = NoResponse
    /\ returned' = None
    /\ UNCHANGED <<config_valid, transport, session_id, stream>>

\* The pump of call i reads a frame of its response.
PairPumpNext(i) ==
    LET s == open_streams[i]
    IN  /\ s.pump_pc = "next"
        /\ Len(s.received) < MaxFrames
        /\ \E sse \in PairFrames[i] :
              open_streams' =
                [open_streams EXCEPT ![i] =
                    IF PumpMatch(sse) = None
                    THEN [s EXCEPT !.received = Append(s.received, sse)]
                    ELSE [s EXCEPT !.received = Append(s.received, sse),
                                   !.pump_pc = "send",
                                   !.sending = PumpMatch(sse)[1]]]
        /\ PairQuiet

\* The response of call i ends.
PairPumpEnd(i) ==
    /\ open_streams[i].pump_pc = "next"
    /\ open_streams' = [open_streams EXCEPT ![i].pump_pc = "done"]
    /\ PairQuiet

\* The send of pump i completes, into the channel of its call.
PairPumpSend(i) ==
    LET s == open_streams[i]
        c == ChannelOf(i)
        fails == SendFails(open_streams[c].handle)
    IN  /\ s.pump_pc = "send"
        /\ fails \/ SendReady(open_streams[c].chan, open_streams[c].handle)
        /\ open_streams' =
              [k \in {1, 2} |->
                 LET t == IF k = c /\ ~fails
                          THEN [open_streams[k] EXCEPT
                                   !.chan = Enqueue(open_streams[k].chan, s.sending.item)]
                          ELSE open_streams[k]
                 IN  IF k = i
                     THEN [t EXCEPT !.pump_pc = IF fails THEN s.sending.else
                                                ELSE s.sending.then,
                                    !.sending = NoSending]
                     ELSE t]
        /\ PairQuiet

\* The consumer polls handle i.
PairPoll(i) ==
    LET s == open_streams[i]
        c == ChannelOf(i)
    IN  /\ s.handle = "held"
        /\ ~s.ended
        /\ IF open_streams[c].chan # <<>>
           THEN open_streams' =
                  [k \in {1, 2} |->
                     LET t == IF k = c
                              THEN [open_streams[k] EXCEPT !.chan = Tail(open_streams[c].chan)]
                              ELSE open_streams[k]
                     IN  IF k = i
                         THEN [t EXCEPT !.delivered =
                                   Append(s.delivered, Decode(s.op, Head(open_streams[c].chan)))]
                         ELSE t]
           ELSE /\ s.pump_pc = "done"
                /\ open_streams' = [open_streams EXCEPT ![i].ended = TRUE]
        /\ PairQuiet

\* The consumer drops handle i, and with it the receiver of its channel.
PairDrop(i) ==
    LET c == ChannelOf(i)
    IN  /\ open_streams[i].handle = "held"
        /\ open_streams' =
              [k \in {1, 2} |->
                 LET t == IF k = c THEN [open_streams[k] EXCEPT !.chan = <<>>]
                          ELSE open_streams[k]
                 IN  IF k = i THEN [t EXCEPT !.handle = "dropped"] ELSE t]
        /\ PairQuiet

PairNext ==
    \/ \E i \in {1, 2} : PairCall(i)
    \/ \E i \in {1, 2} : PairPumpNext(i)
    \/ \E i \in {1, 2} : PairPumpEnd(i)
    \/ \E i \in {1, 2} : PairPumpSend(i)
    \/ \E i \in {1, 2} : PairPoll(i)
    \/ \E i \in {1, 2} : PairDrop(i)

PairSpec == PairInit /\ [][PairNext]_vars

\* ------------------------------------------------------------ properties
MissingSession == Api("Session not initialized")
NoSessionInStream == Api("Init stream ended without a session ID.")

\* An item that ends a stream for its consumer: an error, or the terminal
\* event of the operation.
TerminalTags == {"Success", "DataJson", "ElementsJson", "ResultJson"}
IsTerminal(item) == ~item.ok \/ item.event.tag \in TerminalTags

\* The frames among what the pump has read: everything but SSE comments.
IsFrame(sse) == sse.kind # "other"
FramesOf(seq) == SelectSeq(seq, IsFrame)

\* The items on their way to the consumer, oldest first: those delivered,
\* those in the channel and the one the pump is sending.
Pipeline ==
    delivered
    \o [i \in 1..Len(chan) |-> Decode(stream_op, chan[i])]
    \o (IF pump_pc = "send" THEN <<Decode(stream_op, sending.item)>> ELSE <<>>)

\* An InitResult item that carries a session id.
HasSession(item) == item.ok /\ item.event.tag = "Result" /\ item.event.session_id # ""
\* The first item of an init stream that is an error or carries a session id.
Decisive(s) == {i \in 1..Len(s) : ~s[i].ok \/ HasSession(s[i])}
FirstDecisive(s) == CHOOSE i \in Decisive(s) : \A j \in Decisive(s) : i <= j

\* C1: on a facade without a session, act, extract, observe, execute and close
\* return the missing-session error and leave the transport uncalled: no
\* transport call is counted, no request is issued and no stream is opened.
C1_NoSessionNoTransport ==
    [][(/\ session_id = None
        /\ last_result' # last_result
        /\ last_result'.op \in StreamOps \cup {"close"})
       => /\ ~last_result'.ok
          /\ last_result'.err = MissingSession
          /\ transport_calls' = transport_calls
          /\ last_request' = last_request
          /\ stream' = stream]_vars

C1_Witness ==
    /\ session_id = None
    /\ transport_calls = 1
    /\ last_result.op = "extract"
    /\ last_result.err = MissingSession

\* C2: when the first item of the init stream that is an error or carries a
\* non-empty session id is an InitResult, init returns Ok having taken the
\* items up to it, and the session cell holds exactly that id.
C2_InitTakesFirstSession ==
    (last_result.op = "init" /\ last_init.ok /\ Decisive(last_init.stream) # {})
    => LET i == FirstDecisive(last_init.stream)
       IN  last_init.stream[i].ok
           => /\ last_result.ok
              /\ last_result.consumed = i
              /\ session_id = Some(last_init.stream[i].event.session_id)

C2_Witness ==
    /\ last_result.op = "init"
    /\ last_init.stream = <<InitOk(InitEvent("Result", "")), InitOk(InitEvent("Result", "sess-b"))>>
    /\ last_result.consumed = 2
    /\ session_id = Some("sess-b")

\* C3: an init whose stream ends without an InitResult carrying a non-empty
\* session id returns the "stream ended without a session" error, not Ok, and
\* a facade without a session stays without one.
C3_InitWithoutSessionFails ==
    [][(/\ transport_calls' = transport_calls + 1
        /\ last_result'.op = "init"
        /\ last_init'.ok
        /\ \A i \in 1..Len(last_init'.stream) :
              last_init'.stream[i].ok /\ ~HasSession(last_init'.stream[i]))
       => /\ ~last_result'.ok
          /\ last_result'.err = NoSessionInStream
          /\ (session_id = None => session_id' = None)]_vars

C3_Witness ==
    /\ last_result.op = "init"
    /\ last_request = Some(Request("init", None))
    /\ last_init = CallOk(<<InitOk(InitEvent("Result", ""))>>)
    /\ last_result.err = NoSessionInStream
    /\ session_id = None

\* C4: after close the facade has no session, whether or not the end request
\* succeeded.
C4_CloseClearsSession == last_result.op = "close" => session_id = None

\* C5: a stream delivers at most one terminal item, and nothing after it.
C5_TerminalIsLast ==
    \A i \in 1..Len(delivered) : IsTerminal(delivered[i]) => i = Len(delivered)

\* C6: a stream that has ended has delivered a terminal event or an error as
\* its last item.
C6_EndsWithTerminal ==
    ended => delivered # <<>> /\ IsTerminal(delivered[Len(delivered)])

\* C7: once the handle is dropped, the pump task terminates.
C7_DropStopsPump == (handle = "dropped") ~> (pump_pc = "done")

\* C8: when no frame arrived for longer than the idle period, the pump has
\* stopped and the last item of the stream is the one Timeout error.
C8_IdleTimeout ==
    (idle_expired /\ handle = "held")
    => /\ pump_pc = "done"
       /\ Pipeline # <<>>
       /\ Pipeline[Len(Pipeline)].err.kind = "Timeout"
       /\ \A i \in 1..(Len(Pipeline) - 1) : Pipeline[i].err.kind # "Timeout"

\* C9: while the handle is held, the items delivered and on their way are, in
\* order, one item for each frame the pump has read: none is missing, repeated
\* or out of place.
C9_OneItemPerFrameInOrder ==
    handle = "held"
    => LET frames == FramesOf(received)
           items == Pipeline
       IN  /\ Len(items) = Len(frames)
           /\ items = [i \in 1..Len(frames) |->
                          Decode(stream_op, PumpMatch(frames[i])[1].item)]
           /\ ended => delivered = items

C9_Witness ==
    /\ handle = "held"
    /\ ended
    /\ received = <<SseMalformed, SseEvent(FinishedFrame)>>
    /\ Len(delivered) = 2

\* C10: the channel holds at most ChannelCapacity items; a pump whose send
\* finds it full neither completes the send nor reads on, it keeps the item,
\* and its send can complete as soon as the channel has room again.
C10_Backpressure ==
    /\ Len(chan) <= ChannelCapacity
    /\ (pump_pc = "send" /\ handle = "held")
       => /\ Len(chan) = ChannelCapacity
             => ~ENABLED PumpSend /\ ~ENABLED PumpNext /\ ~ENABLED PumpEnd
          /\ Len(chan) < ChannelCapacity => ENABLED PumpSend
          /\ Len(delivered) + Len(chan) + 1 = Len(FramesOf(received))

C10_Witness ==
    /\ handle = "held"
    /\ pump_pc = "send"
    /\ Len(chan) = ChannelCapacity
    /\ Len(delivered) = 1
    /\ Len(received) = BurstLen

\* A frame the pump has read is JSON of the given type and status.
IsSystemFrame(sse, status) ==
    sse.kind = "event" /\ sse.valid /\ sse.json.type = "system" /\ sse.json.status = status

\* C11: for each of the four operations, a frame of type "system" and status
\* "error" whose data.error is the string m becomes the item Err(Api(m)), with
\* m unchanged.
C11_ErrorFrameIsApiError ==
    handle = "held"
    => LET frames == FramesOf(received)
           items == Pipeline
       IN  \A i \in 1..Len(frames) :
              (IsSystemFrame(frames[i], "error") /\ frames[i].json.error # "absent")
              => /\ i <= Len(items)
                 /\ items[i] = Err(Api(frames[i].json.error))

C11_Witness ==
    /\ stream_op = "observe"
    /\ handle = "held"
    /\ received = <<SseEvent(ErrorFrameOf("boom"))>>
    /\ delivered = <<Err(Api("boom"))>>
    /\ ended

\* The JSON text of a result value r, as the item carries it.
TextOfResult(r) == [of |-> "result", result |-> r, frame |-> NullFrame]

\* C12: a frame of type "system" and status "finished" with result r becomes
\* the terminal event of the operation carrying r: for act Success(b) with b
\* the boolean r.success, for extract, observe and execute the event holding
\* the JSON text of r.
C12_FinishedFrameIsTerminalEvent ==
    handle = "held"
    => LET frames == FramesOf(received)
           items == Pipeline
       IN  \A i \in 1..Len(frames) :
              (/\ IsSystemFrame(frames[i], "finished")
               /\ frames[i].json.result # "absent"
               /\ stream_op = "act" => frames[i].json.result \in {"r_true", "r_false"})
              => LET r == frames[i].json.result
                 IN  /\ i <= Len(items)
                     /\ items[i].ok
                     /\ stream_op = "act" => items[i].event = Success(r = "r_true")
                     /\ stream_op = "extract" => items[i].event = DataJson(TextOfResult(r))
                     /\ stream_op = "observe" => items[i].event = ElementsJson(TextOfResult(r))
                     /\ stream_op = "execute" => items[i].event = ResultJson(TextOfResult(r))

C12_Witness ==
    /\ stream_op = "act"
    /\ handle = "held"
    /\ received = <<SseEvent(FinishedFrameOf("r_false"))>>
    /\ delivered = <<Ok(Success(FALSE))>>
    /\ ended

\* C13: the error that act, extract, observe, execute or close return on a
\* facade without a session has a variant of its own: it is neither the Api
\* variant, which reports an error of the remote service, nor the Transport
\* variant.
C13_MissingSessionIsDistinctKind ==
    (/\ session_id = None
     /\ last_result.op \in StreamOps \cup {"close"}
     /\ ~last_result.ok)
    => last_result.err.kind \notin {"Api", "Transport"}

\* C14: when transport.init fails, or the first item of its stream that is an
\* error or carries a session id is an error, init returns exactly that error,
\* has taken no item after it, and the session cell is what it was.
C14_InitErrorAborts ==
    [][(/\ transport_calls' = transport_calls + 1
        /\ last_result'.op = "init"
        /\ \/ ~last_init'.ok
           \/ /\ Decisive(last_init'.stream) # {}
              /\ ~last_init'.stream[FirstDecisive(last_init'.stream)].ok)
       => /\ ~last_result'.ok
          /\ IF ~last_init'.ok
             THEN last_result'.err = last_init'.err /\ last_result'.consumed = 0
             ELSE LET i == FirstDecisive(last_init'.stream)
                  IN  /\ last_result'.err = last_init'.stream[i].err
                      /\ last_result'.consumed = i
          /\ session_id' = session_id]_vars

C14_Witness ==
    /\ last_result.op = "init"
    /\ last_init = CallOk(<<InitErr(Transport("connection reset")),
                            InitOk(InitEvent("Result", "sess-b"))>>)
    /\ last_result.err = Transport("connection reset")
    /\ last_result.consumed = 1
    /\ session_id = Some("sess-a")

\* C15: a JSON frame whose "type" is a string other than "system" and "log"
\* becomes an error item, and that item is the last of the stream.
C15_UnknownTypeIsTerminalError ==
    handle = "held"
    => LET frames == FramesOf(received)
           items == Pipeline
       IN  \A i \in 1..Len(frames) :
              (/\ frames[i].kind = "event"
               /\ frames[i].valid
               /\ frames[i].json.type \notin {"system", "log", "absent"})
              => /\ i <= Len(items)
                 /\ ~items[i].ok
                 /\ i = Len(frames)

\* The frames whose data failed to parse as JSON.
IsMalformed(sse) == sse.kind = "event" /\ ~sse.valid

\* C16: while the consumer holds the handle, every frame whose data is no JSON
\* has its error item among the items delivered or on their way, at the place
\* of the frame, whether or not the channel was full when the frame arrived;
\* once the stream has ended for the consumer, the item has been delivered.
C16_MalformedFrameIsReported ==
    handle = "held"
    => LET frames == FramesOf(received)
           items == Pipeline
       IN  \A i \in {k \in 1..Len(frames) : IsMalformed(frames[k])} :
              /\ i <= Len(items)
              /\ ~items[i].ok
              /\ ended => i <= Len(delivered) /\ ~delivered[i].ok

\* The frame that is no JSON arrived while the channel was full, and its item
\* has reached the consumer.
C16_Witness ==
    /\ handle = "held"
    /\ ended
    /\ Len(received) = BurstLen
    /\ IsMalformed(received[ChannelCapacity + 1])
    /\ Len(delivered) = BurstLen
    /\ ~delivered[ChannelCapacity + 1].ok

\* C17: the error item for a frame whose data is no JSON has the Protocol
\* variant, not the Api variant that reports an error status of the service.
C17_ParseErrorIsProtocolKind ==
    handle = "held"
    => LET frames == FramesOf(received)
           items == Pipeline
       IN  \A i \in {k \in 1..Len(frames) : IsMalformed(frames[k])} :
              i <= Len(items)
              => /\ items[i].err.kind = "Protocol"
                 /\ items[i].err.kind # Api("boom").kind

\* A frame that stands for the result of act but has no boolean success: a
\* finished frame whose result has none, or a frame without "type" that has
\* none.
LacksSuccess(sse) ==
    /\ sse.kind = "event"
    /\ sse.valid
    /\ \/ IsSystemFrame(sse, "finished") /\ sse.json.result \notin {"r_true", "r_false"}
       \/ sse.json.type = "absent" /\ sse.json.success \notin {"true", "false"}

\* C18: on an act stream, a finished frame or a frame without discriminator
\* whose success is missing or no boolean becomes an error item of the
\* Protocol variant, never a Success event.
C18_MalformedResultIsProtocolError ==
    (handle = "held" /\ stream_op = "act")
    => LET frames == FramesOf(received)
           items == Pipeline
       IN  \A i \in {k \in 1..Len(frames) : LacksSuccess(frames[k])} :
              i <= Len(items)
              => /\ ~items[i].ok
                 /\ items[i].err.kind = "Protocol"
                 /\ items[i].event.tag # "Success"

\* C19: an error of the SSE stream is the last thing the pump reads: the pump
\* sends one Transport error item carrying it and then terminates, whether or
\* not the send succeeds; for a consumer holding the handle that item is the
\* last item on its way, and the last delivered once the stream has ended.
C19_StreamErrorIsLast ==
    \A i \in {k \in 1..Len(received) : received[k].kind = "error"} :
       LET item == Err(Transport(received[i].raw))
       IN  /\ i = Len(received)
           /\ pump_pc \in {"send", "done"}
           /\ ~ENABLED PumpNext
           /\ pump_pc = "send"
              => /\ Decode(stream_op, sending.item) = item
                 /\ sending.then = "done"
                 /\ sending.else = "done"
           /\ handle = "held"
              => LET items == Pipeline
                 IN  /\ items # <<>>
                     /\ items[Len(items)] = item
                     /\ \A j \in 1..(Len(items) - 1) : items[j].err.kind # "Transport"
           /\ ended => delivered # <<>> /\ delivered[Len(delivered)] = item

C19_Witness ==
    /\ handle = "held"
    /\ ended
    /\ pump_pc = "done"
    /\ received = <<SseEvent(LogFrame), SseError>>
    /\ Len(delivered) = 2
    /\ delivered[2] = Err(Transport("connection reset"))

\* C20: a request of act, extract, observe or execute carries a model exactly
\* when the caller gave one, and then as an object: the shorthand String(s) as
\* the object with modelName s and neither apiKey nor baseURL, a structured
\* configuration with its name, and with its key and base URL where it has
\* them; never as a bare string.
C20_ModelSentAsObject ==
    in_flight # None
    => LET a == in_flight[1].args
           sent == in_flight[1].body.model
       IN  IF a.model = None
           THEN sent.json = "absent"
           ELSE LET m == a.model[1]
                IN  /\ sent.json = "object"
                    /\ sent.modelName = m.model_name
                    /\ m.form = "String"
                       => sent.apiKey = "absent" /\ sent.baseURL = "absent"
                    /\ m.form # "String"
                       => /\ sent.apiKey = (IF m.api_key = None THEN "absent" ELSE m.api_key[1])
                          /\ sent.baseURL = (IF m.base_url = None THEN "absent"
                                             ELSE m.base_url[1])

C20_Witness ==
    /\ stream_op = "execute"
    /\ in_flight # None
    /\ in_flight[1].args.model = Some(ModelConfiguration_String("openai/gpt-4o"))
    /\ in_flight[1].body.model = JsonObject("openai/gpt-4o", "absent", "absent")

\* The environment holds the service key, the project id and a model key.
HasCredentials(env) ==
    /\ env.BROWSERBASE_API_KEY # "absent"
    /\ env.BROWSERBASE_PROJECT_ID # "absent"
    /\ env.OPENAI_API_KEY # "absent" \/ env.ANTHROPIC_API_KEY # "absent"

C22_CloseSendsOneEndRequest ==
    (last_result.op = "close" /\ session_id # None)
    => /\ Len(issued) <= 1
       /\ config_valid
          => /\ Len(issued) = 1
             /\ issued[1].request = Request("close", session_id)
             /\ last_request = Some(issued[1].request)
             /\ issued[1].delivery = "failed"
                => ~last_result.ok /\ last_result.err.kind = "Transport"
             /\ issued[1].delivery = "ok" => last_result.ok

C22_Witness ==
    /\ last_result.op = "close"
    /\ session_id = Some("sess-b")
    /\ Len(issued) = 1
    /\ issued[1].request = Request("close", Some("sess-b"))
    /\ issued[1].delivery = "failed"
    /\ last_result.err = Transport("error sending request")

\* C23: every request that act, extract, observe, execute or close hand to the
\* network carries, in its path, the session id the facade held when the call
\* was made, and the operation of the call.
C23_RequestsCarryCurrentSession ==
    [][(/\ transport_calls' = transport_calls + 1
        /\ last_result'.op \in StreamOps \cup {"close"})
       => /\ session_id # None
          /\ \A i \in 1..Len(issued') :
                /\ issued'[i].request.sid = session_id
                /\ issued'[i].request.op = last_result'.op
          /\ config_valid => issued' # <<>> /\ last_request' = Some(issued'[1].request)]_vars

C23_Witness ==
    /\ stream_op = "observe"
    /\ transport_calls = 3
    /\ session_id = Some("sess-b")
    /\ Len(issued) = 1
    /\ issued[1].request = Request("observe", Some("sess-b"))

\* A frame the pump has read is JSON of type "log".
IsLogFrame(sse) == sse.kind = "event" /\ sse.valid /\ sse.json.type = "log"

\* LogLine { message, status } with the frame's data.message (the empty
\* string when it has none) and data.status (None when it has none).
LogLineOf(json) ==
    [message |-> IF json.message = "absent" THEN "" ELSE json.message,
     status |-> IF json.status = "absent" THEN None ELSE <<json.status>>]

\* C24: a frame of type "log" becomes an Ok item carrying the Log event with
\* the frame's message and status, never an error; the pump reads on after
\* it, and the frame that follows it has its item too.
C24_LogFrameIsLogEvent ==
    handle = "held"
    => LET frames == FramesOf(received)
           items == Pipeline
       IN  \A i \in {k \in 1..Len(frames) : IsLogFrame(frames[k])} :
              /\ i <= Len(items)
              /\ items[i].ok
              /\ items[i].event.tag = "Log"
              /\ items[i].event.log = LogLineOf(frames[i].json)
              /\ ~IsTerminal(items[i])
              /\ i < Len(frames) => Len(items) > i
              /\ (i = Len(frames) /\ pump_pc = "send") => sending.then = "next"

C24_Witness ==
    /\ stream_op = "act"
    /\ handle = "held"
    /\ ended
    /\ received = <<SseEvent(LogFrame), SseEvent(FinishedFrame)>>
    /\ delivered = <<Ok(Log([message |-> "navigating", status |-> None])),
                     Ok(Success(TRUE))>>

\* C25: a step that changes the session cell is a call of init or of close:
\* act, extract, observe, execute, the two getters and every step of a stream
\* leave it as it is.
C25_OnlyInitAndCloseChangeSession ==
    [][session_id' # session_id
       => /\ last_result'.op \in {"init", "close"}
          /\ transport_calls' = transport_calls + 1
          /\ stream_op = "none"]_vars

C25_Witness ==
    /\ last_result.op = "browserbase_cdp_url"
    /\ returned = Some(CdpUrl("sess-a", "bb-key"))
    /\ session_id = Some("sess-a")
    /\ transport_calls = 2

\* A frame the pump has read is JSON without a "type" string.
IsBareFrame(sse) == sse.kind = "event" /\ sse.valid /\ sse.json.type = "absent"

\* The JSON text of a whole frame, as the item carries it.
TextOfFrame(json) == [of |-> "frame", result |-> "null", frame |-> json]

\* The terminal event of each operation for a frame taken as the payload.
PayloadEvent(op, json) ==
    CASE op = "act" -> Success(json.success = "true")
      [] op = "extract" -> DataJson(TextOfFrame(json))
      [] op = "observe" -> ElementsJson(TextOfFrame(json))
      [] op = "execute" -> ResultJson(TextOfFrame(json))

\* C26: a frame without "type" (for act: with a boolean success) becomes the
\* terminal event of the operation built from the frame itself, and it is the
\* last frame the stream takes: no item follows its event.
C26_BareFrameEndsStream ==
    handle = "held"
    => LET frames == FramesOf(received)
           items == Pipeline
       IN  \A i \in {k \in 1..Len(frames) : IsBareFrame(frames[k])} :
              (stream_op = "act" => frames[i].json.success \in {"true", "false"})
              => /\ i <= Len(items)
                 /\ items[i] = Ok(PayloadEvent(stream_op, frames[i].json))
                 /\ i = Len(frames)
                 /\ pump_pc = "send" => sending.then = "done"

\* A frame the pump has read is a system frame whose status is neither
\* "finished" nor "error", or is missing.
IsOtherStatus(sse) ==
    /\ sse.kind = "event"
    /\ sse.valid
    /\ sse.json.type = "system"
    /\ sse.json.status \notin {"finished", "error"}

\* C27: a system frame whose status is neither "finished" nor "error" becomes
\* an Ok item without event: no log, no terminal event, no error; the pump
\* reads on after it, and the frame that follows it has its item too.
C27_OtherStatusIsNoEvent ==
    handle = "held"
    => LET frames == FramesOf(received)
           items == Pipeline
       IN  \A i \in {k \in 1..Len(frames) : IsOtherStatus(frames[k])} :
              /\ i <= Len(items)
              /\ items[i].ok
              /\ items[i].event.tag = "None"
              /\ ~IsTerminal(items[i])
              /\ i < Len(frames) => Len(items) > i
              /\ (i = Len(frames) /\ pump_pc = "send") => sending.then = "next"

C27_Witness ==
    /\ stream_op = "extract"
    /\ handle = "held"
    /\ ended
    /\ received = <<SseEvent(RunningFrame), SseEvent(FinishedFrame)>>
    /\ delivered = <<Ok(NoEvent), Ok(DataJson(TextOfResult("r_true")))>>

\* C28: while no idle period has elapsed since the last frame, the stream
\* holds no Timeout error, however many frames it has carried, and the pump
\* has stopped only because the SSE stream ended or failed or the handle was
\* dropped.
C28_NoTimeoutWithoutIdle ==
    ~idle_expired
    => LET items == Pipeline
       IN  /\ \A i \in 1..Len(items) : items[i].err.kind # "Timeout"
           /\ (pump_pc = "done" /\ handle = "held" /\ script = "burst")
              => Len(received) = BurstLen

C28_Witness ==
    /\ script = "burst"
    /\ handle = "held"
    /\ ~idle_expired
    /\ ended
    /\ Len(delivered) = BurstLen
    /\ delivered[BurstLen].ok

\* C29: extract with a schema that cannot be serialized returns the missing-
\* session error when the facade has no session, and otherwise an Api error
\* that carries the serializer's message; in both cases no request is issued,
\* the transport is not called and no stream is opened.  No other call to a
\* stream operation that passed the session check fails while building its
\* request, unless the transport's configuration is invalid.
C29_BadSchemaIsApiErrorWithoutRequest ==
    /\ (last_result.op = "extract" /\ last_schema = "unserializable")
       => /\ ~last_result.ok
          /\ issued = <<>>
          /\ stream_op = "none"
          /\ IF session_id = None
             THEN last_result.err = MissingSession
             ELSE /\ last_result.err.kind = "Api"
                  /\ last_result.err # MissingSession
                  /\ last_result.err.msg = "key must be a string"
    /\ (/\ last_result.op \in StreamOps
        /\ ~last_result.ok
        /\ last_result.err # MissingSession
        /\ config_valid)
       => /\ last_result.op = "extract"
          /\ last_schema = "unserializable"

C29_Witness ==
    /\ last_result.op = "extract"
    /\ last_schema = "unserializable"
    /\ session_id # None
    /\ last_result.err = Api("key must be a string")
    /\ issued = <<>>
    /\ transport_calls > 0

\* C30: every request the transport issues, for session start, act, extract,
\* observe, agentExecute and session end, carries the service API key and the
\* project id the transport was built with, both present; the requests of the
\* four stream operations also carry the stream flag "true".
C30_RequestsCarryRequiredHeaders ==
    \A i \in 1..Len(issued) :
        /\ issued[i].request.op \in StreamOps \cup {"init", "close"}
        /\ transport # None
        /\ issued[i].headers.x_bb_api_key = transport[1].api_key
        /\ issued[i].headers.x_bb_api_key # "absent"
        /\ issued[i].headers.x_bb_project_id = transport[1].project_id
        /\ issued[i].headers.x_bb_project_id # "absent"
        /\ issued[i].request.op \in StreamOps
           => issued[i].headers.x_stream_response = "true"

C30_Witness ==
    /\ Len(issued) = 1
    /\ issued[1].request.op = "execute"
    /\ issued[1].headers.x_bb_api_key = "bb-key"
    /\ issued[1].headers.x_bb_project_id = "proj-1"
    /\ issued[1].headers.x_stream_response = "true"

\* C31: the body of an act, extract or observe request has the key
\* options.timeoutMs with the caller's timeout when one was passed, and no
\* such key otherwise.
C31_TimeoutSentAsTimeoutMs ==
    (in_flight # None /\ stream_op \in {"act", "extract", "observe"})
    => LET a == in_flight[1].args
           b == in_flight[1].body
       IN  /\ TimeoutUnder(stream_op, b, "timeoutMs") = a.timeout
           /\ a.timeout = None <=> "timeoutMs" \notin OptionsKeys(stream_op, b)

\* C32: the session cell is empty or holds a non-empty string.
C32_SessionIdNeverEmpty == session_id # None => session_id[1] # ""

C32_Witness ==
    /\ last_result.op = "init"
    /\ issued # <<>>
    /\ last_init = CallOk(<<InitOk(InitEvent("Result", ""))>>)
    /\ ~last_result.ok
    /\ session_id = Some("sess-a")

\* C33: an init on a facade that has a session keeps the stored id when it
\* fails and stores the id of the stream's first InitResult with a non-empty
\* id when it succeeds; every request issued for a later operation is
\* addressed to the id that is stored then.
C33_ReinitKeepsOrReplaces ==
    [][/\ (/\ transport_calls' = transport_calls + 1
           /\ last_result'.op = "init"
           /\ session_id # None)
          => IF last_result'.ok
             THEN /\ last_init'.ok
                  /\ Decisive(last_init'.stream) # {}
                  /\ session_id' =
                        Some(last_init'.stream[FirstDecisive(last_init'.stream)].event.session_id)
             ELSE session_id' = session_id
       /\ \A i \in 1..Len(issued') :
             issued'[i].request.op # "init" => issued'[i].request.sid = session_id']_vars

C33_Witness ==
    /\ last_result = CallResult("init", TRUE, NoErr, 1)
    /\ last_init = CallOk(<<InitOk(InitEvent("Result", "sess-b"))>>)
    /\ last_request = Some(Request("close", Some("sess-a")))
    /\ session_id = Some("sess-b")

\* C34: an init over REST whose start response has no success = true returns
\* an Api error with the response's error text, "Unknown error" when it has
\* none, whatever the availability flag says; with success = true and no
\* available = true it returns the Api error of the availability check.  In
\* both cases the transport returns no stream, so no InitResult, and the
\* session cell is left as it was; init returns Ok only for a response with
\* both flags true.
C34_StartResponseChecks ==
    [][(/\ transport_calls' = transport_calls + 1
        /\ last_result'.op = "init"
        /\ last_response' # NoResponse
        /\ last_response'.sent)
       => LET r == last_response'
          IN  /\ r.success # "true"
                 => /\ last_result' = CallResult("init", FALSE,
                                         Api(IF r.error = "absent" THEN "Unknown error"
                                             ELSE r.error), 0)
                    /\ last_init' = CallErr(last_result'.err)
                    /\ session_id' = session_id
              /\ (r.success = "true" /\ r.available # "true")
                 => /\ last_result' =
                         CallResult("init", FALSE,
                                    Api("Stagehand API not available for this account"), 0)
                    /\ last_init' = CallErr(last_result'.err)
                    /\ session_id' = session_id
              /\ last_result'.ok => (r.success = "true" /\ r.available = "true")]_vars

C34_Witness ==
    /\ last_result.op = "init"
    /\ last_response = StartResponse(TRUE, "true", "absent", "false", "sess-a")
    /\ last_result.err = Api("Stagehand API not available for this account")
    /\ last_init.stream = <<>>
    /\ session_id = Some("sess-b")

\* C35: with a server that closes the connection and a consumer that keeps
\* polling, a stream whose handle is held is eventually ended, unless the
\* consumer drops the handle; when it has ended the pump has terminated and
\* the channel is empty, every item the pump sent having been delivered; and
\* an ended stream stays ended and delivers nothing more.
C35_ClosedStreamEnds ==
    /\ (handle = "held") ~> (ended \/ handle = "dropped")
    /\ [](ended => /\ pump_pc = "done"
                   /\ chan = <<>>
                   /\ Len(delivered) = Len(FramesOf(received)))
    /\ [][ended => (ended' /\ delivered' = delivered)]_vars

C35_Witness ==
    /\ script = "mixed"
    /\ handle = "held"
    /\ ended
    /\ pump_pc = "done"
    /\ Len(received) = MaxFrames
    /\ Len(delivered) = MaxFrames

\* C36: of two streams open at the same time, every item delivered on a held
\* handle is the item of a frame of that call's own response, in the order of
\* the frames; and a step in which the consumer takes an item from one handle,
\* sees its end or drops it changes nothing of the other stream.
C36_StreamsAreIsolated ==
    /\ [](\A i \in {1, 2} :
            LET s == open_streams[i]
                frames == FramesOf(s.received)
            IN  /\ Len(s.delivered) <= Len(frames)
                /\ \A k \in 1..Len(s.delivered) :
                      /\ frames[k] \in PairFrames[i]
                      /\ s.delivered[k] = Decode(s.op, PumpMatch(frames[k])[1].item))
    /\ [][\A i \in {1, 2} :
            (\/ open_streams'[i].delivered # open_streams[i].delivered
             \/ open_streams'[i].ended # open_streams[i].ended
             \/ open_streams'[i].handle = "dropped" /\ open_streams[i].handle = "held")
            => open_streams'[3 - i] = open_streams[3 - i]]_vars

C36_Witness ==
    /\ open_streams[1].handle = "dropped"
    /\ open_streams[1].pump_pc = "done"
    /\ Len(open_streams[1].delivered) = 1
    /\ open_streams[2].handle = "held"
    /\ open_streams[2].ended
    /\ Len(open_streams[2].delivered) = MaxFrames

\* C37: when the pump's send of the error for a frame that is no JSON is
\* over, whether it completed or failed, the pump is back at reading the
\* SSE stream; and while the handle is held every well-formed frame read
\* after such a frame has its item at the frame's place among the items
\* delivered or on their way.
C37_PumpReadsOnAfterParseError ==
    /\ [][(/\ pump_pc = "send"
            /\ IsMalformed(received[Len(received)])
            /\ pump_pc' # "send")
           => /\ pump_pc' = "next"
              /\ handle = "held" => chan' = Append(chan, sending.item)]_vars
    /\ [](handle = "held"
          => LET frames == FramesOf(received)
                 items == Pipeline
                 bad == {m \in 1..Len(frames) : IsMalformed(frames[m])}
             IN  \A m \in bad :
                    \A k \in (m + 1)..Len(frames) :
                       (frames[k].kind = "event" /\ ~IsMalformed(frames[k]))
                       => /\ k <= Len(items)
                          /\ items[k] = Decode(stream_op, OkJson(frames[k].json)))

C37_Witness ==
    /\ handle = "held"
    /\ received = <<SseMalformed, SseEvent(LogFrame)>>
    /\ Len(delivered) = 2
    /\ ~delivered[1].ok
    /\ delivered[2] = Decode(stream_op, OkJson(LogFrame))

\* C38: when browserbase_cdp_url has returned, it has returned None if the
\* facade holds no session id, and a URL it has returned is the connect URL
\* whose sessionId parameter is the session id the facade holds.
C38_CdpUrlNeedsSession ==
    last_result.op = "browserbase_cdp_url"
    => /\ session_id = None => returned = None
       /\ returned # None
          => /\ session_id # None
             /\ \E key \in {"bb-key"} :
                   returned[1] = "wss://connect.browserbase.com?sessionId="
                                 \o session_id[1] \o "&apiKey=" \o key

C38_Witness ==
    /\ last_result.op = "browserbase_cdp_url"
    /\ session_id = Some("sess-b")
    /\ returned = Some("wss://connect.browserbase.com?sessionId=sess-b&apiKey=bb-key")
====
